---- MODULE Spec2Model ----
(***************************************************************************)
(* Model of server.py: the in-memory session store (_SESSIONS guarded by   *)
(* _SESSION_LOCK), the blocking relay handler chat(), and the streaming    *)
(* relay handler chat_stream() with its event_generator().                 *)
(*                                                                         *)
(* Text is a sequence of one-character strings; " " is the only whitespace *)
(* character of the model.  Each slot of Reqs is one worker thread of the  *)
(* server; a worker serves its requests one after the other, and the       *)
(* workers of the set `workers` run concurrently.                          *)
(***************************************************************************)
EXTENDS Integers, Sequences, FiniteSets, TLC

VARIABLES
    MAX_TURNS,          \* server.py:29, fixed at process start
    PERSIST_SESSIONS,   \* server.py:32, fixed at process start
    OPENROUTER_API_KEY, \* server.py:18, fixed at process start
    MAX_PROMPT_CHARS,   \* server.py:31, fixed at process start
    SESSIONS,           \* _SESSIONS: session id -> list of messages
    SESSION_LOCK,       \* _SESSION_LOCK: 0 when free, else the holding request
    disk,               \* content of SESSION_STORE_PATH
    reqs,               \* per worker: the handler's locals and position
    workers,            \* the worker threads the server runs
    limits,             \* what the environment does at most during a run
    used,               \* what the environment has done so far
    started,            \* number of requests received so far
    log,                \* per session: the turns committed since its last clear
    prompt              \* a call of _build_messages: its arguments and result

vars == <<MAX_TURNS, PERSIST_SESSIONS, OPENROUTER_API_KEY, MAX_PROMPT_CHARS,
          SESSIONS, SESSION_LOCK, disk, reqs, workers, limits, used, started,
          log, prompt>>

-----------------------------------------------------------------------------
(* Bounds of the model *)

\* requests received during a run of Spec
MaxRequests == 2
\* upstream events (chunks sent, transport failures) during a run of Spec
SeqEvents == 1
\* chunks the upstream sends during a run of StreamSpec
MaxChunks == 2
\* largest configured MAX_TURNS
MaxTurnsBound == 1
\* longest history handed to _build_messages during a run of PromptSpec
PromptMaxLen == 4

Reqs == {1, 2}
SessionIds == {"s1", "s2"}
Whitespace == {" "}
UserMessages == {<<>>, <<" ">>, <<"m">>}
ApiKeys == {<<>>, <<" ">>, <<"k">>}
ContentChunks == {<<"a">>, <<" ">>}
RawFrames == {<<"x">>}
Replies == {<<"r">>}
NonOkStatuses == {429}

\* for attempt in range(1, 4)
MAX_ATTEMPTS == 3

\* os.getenv("MAX_PROMPT_CHARS", "6000")
DEFAULT_MAX_PROMPT_CHARS == 6000

\* budget = max(1000, MAX_PROMPT_CHARS)
MIN_BUDGET == 1000

-----------------------------------------------------------------------------
(* Text helpers: str.strip() and "".join() *)

RECURSIVE LStrip(_)
LStrip(s) ==
    IF s = <<>> THEN s
    ELSE IF Head(s) \in Whitespace THEN LStrip(Tail(s)) ELSE s

RECURSIVE RStrip(_)
RStrip(s) ==
    IF s = <<>> THEN s
    ELSE IF s[Len(s)] \in Whitespace THEN RStrip(SubSeq(s, 1, Len(s) - 1)) ELSE s

Strip(s) == RStrip(LStrip(s))

RECURSIVE Join(_)
Join(parts) ==
    IF parts = <<>> THEN <<>> ELSE Head(parts) \o Join(Tail(parts))

\* Python's lst[-k:] for k >= 0: the last k items, but the whole list for k = 0
PySliceLast(lst, k) ==
    IF k = 0 \/ k >= Len(lst) THEN lst
    ELSE SubSeq(lst, Len(lst) - k + 1, Len(lst))

-----------------------------------------------------------------------------
(* Session store operations, each run with _SESSION_LOCK held *)

Message(role, content) == [role |-> role, content |-> content]

\* _SESSIONS.get(session_id, [])
SessionGet(sessions, sid) ==
    IF sid \in DOMAIN sessions THEN sessions[sid] ELSE <<>>

\* variant: the clear leaves the session in the store
SessionPopNothing(sessions, sid) == sessions

\* _SESSIONS.pop(session_id, None)
SessionPop(sessions, sid) ==
    [s \in (DOMAIN sessions) \ {sid} |-> sessions[s]]

\* variant: the history is stored under another session id
SessionSetOther(sessions, sid, hist) ==
    LET other == CHOOSE s \in SessionIds : s # sid
    IN  [s \in (DOMAIN sessions) \cup {other} |->
            IF s = other THEN hist ELSE sessions[s]]

\* _SESSIONS[session_id] = hist
SessionSet(sessions, sid, hist) ==
    [s \in (DOMAIN sessions) \cup {sid} |-> IF s = sid THEN hist ELSE sessions[s]]

\* if len(hist) > max_messages: hist = hist[-max_messages:]
TrimHistory(hist, max_messages) ==
    IF Len(hist) > max_messages THEN PySliceLast(hist, max_messages) ELSE hist

\* the body of the commit block of chat() and of event_generator()
CommitTurn(sessions, sid, user_message, reply) ==
    LET hist == SessionGet(sessions, sid)
                    \o <<Message("user", user_message), Message("assistant", reply)>>
    IN  SessionSet(sessions, sid, TrimHistory(hist, MAX_TURNS * 2))

-----------------------------------------------------------------------------
(* Request state *)

\* the locals of a handler; upstream_status is r.status_code (0: no answer),
\* hist and full_reply are the locals of the commit block
IdleReq ==
    [pc |-> "idle", path |-> "none", session_id |-> "s1", message |-> <<>>,
     clear |-> FALSE, effective_api_key |-> <<>>, history |-> <<>>,
     attempt |-> 0, reply_accum |-> <<>>, reply |-> <<>>, full_reply |-> <<>>,
     hist |-> <<>>, upstream_status |-> 0,
     status |-> 0, emitted |-> <<>>, outcomes |-> <<>>, waits |-> <<>>,
     upstream_calls |-> 0, commits |-> <<>>, abandoned |-> FALSE,
     since |-> <<>>, cleared_since |-> FALSE]

\* no call of _build_messages under observation
IdlePrompt ==
    [history |-> <<>>, user_message |-> <<>>, messages |-> <<>>, built |-> FALSE]

\* the request inputs of a run: every message, key and clear flag
AllInputs ==
    [sessions |-> SessionIds, messages |-> UserMessages, keys |-> ApiKeys,
     clears |-> BOOLEAN]

\* the process environment of a run: the values of MAX_TURNS and of
\* OPENROUTER_API_KEY, the contents of the session file found at process start
AnyKeyNoFile ==
    [turns |-> 0..MaxTurnsBound, server_keys |-> {<<>>, <<"k">>}, files |-> {<<>>}]

\* a session file left by an earlier process: one turn of session s1
StoredTurn == <<Message("user", <<"m">>), Message("assistant", <<"r">>)>>
OneSessionFile == [s \in {"s1"} |-> StoredTurn]

\* _load_sessions_from_disk(): the store after the module is loaded
LoadedSessions(persist, file) == IF persist THEN file ELSE <<>>

\* the turns of the loaded sessions
LoadedLog(sessions) ==
    [s \in SessionIds |-> IF s \in DOMAIN sessions THEN <<sessions[s]>> ELSE <<>>]

InitWith(lim, ws, env) ==
    /\ limits = lim
    /\ MAX_TURNS \in env.turns
    /\ PERSIST_SESSIONS \in BOOLEAN
    /\ OPENROUTER_API_KEY \in env.server_keys
    /\ MAX_PROMPT_CHARS = DEFAULT_MAX_PROMPT_CHARS
    \* without persistence the session file plays no part: taken as absent
    /\ disk \in IF PERSIST_SESSIONS THEN env.files ELSE {<<>>}
    /\ SESSIONS = LoadedSessions(PERSIST_SESSIONS, disk)
    /\ SESSION_LOCK = 0
    /\ reqs = [r \in Reqs |-> IdleReq]
    /\ workers = ws
    /\ used = [chunks |-> 0, failures |-> 0]
    /\ started = 0
    /\ log = LoadedLog(SESSIONS)
    /\ prompt = IdlePrompt

\* a run of several requests, one after the other
Init ==
    InitWith([requests |-> MaxRequests, events |-> SeqEvents,
              chunks |-> SeqEvents, failures |-> SeqEvents,
              inputs |-> AllInputs], {1}, AnyKeyNoFile)

\* a run of one request with a longer stream, whose transport may fail on
\* every attempt of the retry loop
StreamInit ==
    InitWith([requests |-> 1, events |-> MaxChunks + MAX_ATTEMPTS,
              chunks |-> MaxChunks, failures |-> MAX_ATTEMPTS,
              inputs |-> AllInputs], {1}, AnyKeyNoFile)

\* the request inputs of a run of concurrent requests: one message text, a
\* pure clear or none, a request key or none
ConcInputs ==
    [sessions |-> SessionIds, messages |-> {<<>>, <<"m">>}, keys |-> {<<"k">>},
     clears |-> BOOLEAN]

\* a run of concurrent requests: every worker of Reqs serves requests, as
\* many requests as there are workers; the process may have found a session
\* file at its start
ConcInit ==
    InitWith([requests |-> Cardinality(Reqs), events |-> SeqEvents,
              chunks |-> SeqEvents, failures |-> SeqEvents,
              inputs |-> ConcInputs], Reqs,
             [turns |-> {MaxTurnsBound}, server_keys |-> {<<>>},
              files |-> {<<>>, OneSessionFile}])

\* the request inputs of a run of requests that share one session id
RaceInputs ==
    [sessions |-> {"s1"}, messages |-> {<<"m">>, <<" ">>}, keys |-> {<<"k">>},
     clears |-> BOOLEAN]

\* a run of requests on one session id served by two workers, one request
\* more than there are workers, with room in the store for more than one turn
RaceInit ==
    InitWith([requests |-> Cardinality(Reqs) + 1, events |-> SeqEvents,
              chunks |-> SeqEvents, failures |-> SeqEvents,
              inputs |-> RaceInputs], Reqs,
             [turns |-> {MaxTurnsBound + 1}, server_keys |-> {<<>>},
              files |-> {<<>>}])

\* the request holds a history snapshot and has not yet entered its commit
\* block: lines 222-243 of chat(), the generator up to its finally block
SnapshotHeld(q) == q.pc \in {"post", "connect", "iter", "yielded", "finally", "commit"}

\* what the requests that hold a snapshot of session sid have missed: the
\* turns other requests committed to sid since the snapshot or, if sid was
\* cleared after the snapshot, since its last clear
NoteCommit(rs, r, sid, turn) ==
    [o \in Reqs |->
        IF o # r /\ SnapshotHeld(rs[o]) /\ rs[o].session_id = sid
        THEN [rs[o] EXCEPT !.since = Append(@, turn)]
        ELSE rs[o]]

NoteClear(rs, r, sid) ==
    [o \in Reqs |->
        IF o # r /\ SnapshotHeld(rs[o]) /\ rs[o].session_id = sid
        THEN [rs[o] EXCEPT !.since = <<>>, !.cleared_since = TRUE]
        ELSE rs[o]]

store_unchanged == UNCHANGED <<SESSIONS, SESSION_LOCK, disk, log>>
config_unchanged ==
    UNCHANGED <<MAX_TURNS, PERSIST_SESSIONS, OPENROUTER_API_KEY, MAX_PROMPT_CHARS,
                workers, limits, prompt>>

-----------------------------------------------------------------------------
(* _persist_sessions_to_disk(), always called with _SESSION_LOCK held by the *)
(* caller.  With persistence off it returns at once and the caller's `with` *)
(* block ends, releasing the lock.  With persistence on it first acquires   *)
(* the non-reentrant _SESSION_LOCK itself.                                  *)

MemoryCleared == <<"Memory cleared.">>

\* variant: the lock is taken without waiting for its holder
CanAcquireAlways(lock) == TRUE

\* with _SESSION_LOCK: the block is entered when the lock is free
CanAcquire(lock) == lock = 0

\* variant: the snapshot block does not release the lock
LockKeptAfterRead(r) == r

\* the end of the `with _SESSION_LOCK:` block of the history snapshot
LockAfterRead(r) == 0

AfterPersist(q) ==
    CASE q.pc = "clear_only_persist" ->
            [q EXCEPT !.pc = "done", !.status = 200, !.reply = MemoryCleared]
      [] q.pc = "clear_persist" -> [q EXCEPT !.pc = "read"]
      [] q.pc = "commit_persist" -> [q EXCEPT !.pc = "done", !.status = 200]

persist_sessions_to_disk(r) ==
    /\ reqs[r].pc \in {"clear_only_persist", "clear_persist", "commit_persist"}
    /\ PERSIST_SESSIONS => CanAcquire(SESSION_LOCK)
    /\ disk' = IF PERSIST_SESSIONS THEN SESSIONS ELSE disk
    /\ SESSION_LOCK' = 0
    /\ reqs' = [reqs EXCEPT ![r] = AfterPersist(reqs[r])]
    /\ UNCHANGED <<SESSIONS, started, used, log>>
    /\ config_unchanged

-----------------------------------------------------------------------------
(* chat(): the blocking relay call *)

\* effective_api_key = (req.api_key or "").strip() or OPENROUTER_API_KEY
EffectiveApiKey(api_key) ==
    IF Strip(api_key) # <<>> THEN Strip(api_key) ELSE OPENROUTER_API_KEY

\* variant: the credential check is missing
MissingKeyNever(effective_api_key) == FALSE

\* if not effective_api_key:
MissingKey(effective_api_key) == effective_api_key = <<>>

NewRequest(path, sid, msg, clear, key) ==
    [IdleReq EXCEPT !.path = path, !.session_id = sid, !.message = msg,
                    !.clear = clear, !.effective_api_key = EffectiveApiKey(key)]

\* request entry up to the choice between pure clear, clear and relay
chat(r) ==
    /\ r \in workers
    /\ reqs[r].pc \in {"idle", "done"}
    /\ started < limits.requests
    /\ \E sid \in limits.inputs.sessions, msg \in limits.inputs.messages,
          clear \in limits.inputs.clears, key \in limits.inputs.keys :
         LET q == NewRequest("blocking", sid, msg, clear, key)
         IN  reqs' = [reqs EXCEPT ![r] =
                 IF MissingKey(q.effective_api_key)
                 THEN [q EXCEPT !.pc = "done", !.status = 400]
                 ELSE IF clear /\ Strip(msg) = <<>>
                 THEN [q EXCEPT !.pc = "clear_only"]
                 ELSE IF clear
                 THEN [q EXCEPT !.pc = "clear"]
                 ELSE [q EXCEPT !.pc = "read"]]
    /\ started' = started + 1
    /\ UNCHANGED used
    /\ store_unchanged
    /\ config_unchanged

\* lines 197-199: pure clear
chat_clear_only(r) ==
    /\ reqs[r].pc = "clear_only"
    /\ CanAcquire(SESSION_LOCK)
    /\ SESSION_LOCK' = r
    /\ SESSIONS' = SessionPop(SESSIONS, reqs[r].session_id)
    /\ log' = [log EXCEPT ![reqs[r].session_id] = <<>>]
    /\ reqs' = [NoteClear(reqs, r, reqs[r].session_id)
                   EXCEPT ![r].pc = "clear_only_persist"]
    /\ UNCHANGED <<disk, started, used>>
    /\ config_unchanged

\* lines 206-208: clear, then relay the message
chat_clear(r) ==
    /\ reqs[r].pc = "clear"
    /\ CanAcquire(SESSION_LOCK)
    /\ SESSION_LOCK' = r
    /\ SESSIONS' = SessionPop(SESSIONS, reqs[r].session_id)
    /\ log' = [log EXCEPT ![reqs[r].session_id] = <<>>]
    /\ reqs' = [NoteClear(reqs, r, reqs[r].session_id)
                   EXCEPT ![r].pc = "clear_persist"]
    /\ UNCHANGED <<disk, started, used>>
    /\ config_unchanged

\* lines 220-221: history snapshot, taken and released under the lock
chat_read_history(r) ==
    /\ reqs[r].pc = "read"
    /\ reqs[r].path = "blocking"
    /\ CanAcquire(SESSION_LOCK)
    /\ SESSION_LOCK' = LockAfterRead(r)
    /\ reqs' = [reqs EXCEPT ![r].history = SessionGet(SESSIONS, reqs[r].session_id),
                            ![r].pc = "post"]
    /\ UNCHANGED <<SESSIONS, disk, log, started, used>>
    /\ config_unchanged

\* variant: every upstream failure is answered with 502
BlockingStatusAlways502(upstream_status, reply) == 502

\* lines 237-242, 255-256: the status of the answer to the caller, from the
\* upstream's status (0: requests.RequestException) and reply content
BlockingStatus(upstream_status, reply) ==
    IF upstream_status = 0 THEN 502
    ELSE IF upstream_status # 200 THEN upstream_status
    ELSE IF reply = <<>> THEN 502
    ELSE 200

\* the upstream answers that make the blocking call fail: a status other than
\* 200, no answer at all, a 200 answer without content
FailedAnswers ==
    [upstream_status : NonOkStatuses \cup {0}, reply : {<<>>}]
        \cup [upstream_status : {200}, reply : {<<>>}]

\* lines 236-242, 255-256: the single upstream call and its failures
chat_post_fails(r) ==
    /\ reqs[r].pc = "post"
    /\ \E answer \in FailedAnswers :
         reqs' = [reqs EXCEPT ![r].upstream_calls = @ + 1,
                              ![r].upstream_status = answer.upstream_status,
                              ![r].status = BlockingStatus(answer.upstream_status,
                                                           answer.reply),
                              ![r].pc = "done"]
    /\ UNCHANGED <<started, used>>
    /\ store_unchanged
    /\ config_unchanged

chat_post_replies(r) ==
    /\ reqs[r].pc = "post"
    /\ \E reply \in Replies :
         reqs' = [reqs EXCEPT ![r].upstream_calls = @ + 1,
                              ![r].upstream_status = 200,
                              ![r].reply = reply,
                              ![r].pc = "commit"]
    /\ UNCHANGED <<started, used>>
    /\ store_unchanged
    /\ config_unchanged

\* variant: the commit starts from a new list, not from the stored one
HistFromNewList(sessions, sid, user_message) == <<Message("user", user_message)>>

\* hist = _SESSIONS.get(session_id, []); hist.append(user message)
HistAfterUser(sessions, sid, user_message) ==
    SessionGet(sessions, sid) \o <<Message("user", user_message)>>

\* the list of an existing session is extended in place, so the store shows
\* the appended user message at once; a new session's list is not yet stored
SessionsAfterUser(sessions, sid, user_message) ==
    IF sid \in DOMAIN sessions
    THEN [sessions EXCEPT ![sid] = HistAfterUser(sessions, sid, user_message)]
    ELSE sessions

\* lines 244-246: the commit block is entered and the user message appended
chat_commit(r) ==
    /\ reqs[r].pc = "commit"
    /\ CanAcquire(SESSION_LOCK)
    /\ SESSION_LOCK' = r
    /\ SESSIONS' = SessionsAfterUser(SESSIONS, reqs[r].session_id, reqs[r].message)
    /\ reqs' = [reqs EXCEPT ![r].hist = HistAfterUser(SESSIONS, reqs[r].session_id,
                                                      reqs[r].message),
                            ![r].pc = "commit_append"]
    /\ UNCHANGED <<disk, started, used, log>>
    /\ config_unchanged

\* the reply the commit block appends: reply in chat(), full_reply in
\* event_generator()
PendingReply(q) == IF q.path = "stream" THEN q.full_reply ELSE q.reply

\* lines 247-251 and 405-409: the assistant message is appended, the list
\* trimmed and stored under the session id
commit_append(r) ==
    /\ reqs[r].pc = "commit_append"
    /\ LET q == reqs[r]
           hist == q.hist \o <<Message("assistant", PendingReply(q))>>
           turn == <<Message("user", q.message),
                     Message("assistant", PendingReply(q))>>
       IN  /\ SESSIONS' = SessionSet(SESSIONS, q.session_id,
                                     TrimHistory(hist, MAX_TURNS * 2))
           /\ log' = [log EXCEPT ![q.session_id] = Append(@, turn)]
           /\ reqs' = [NoteCommit(reqs, r, q.session_id, turn)
                       EXCEPT ![r].commits = Append(@, PendingReply(q)),
                              ![r].hist = <<>>,
                              ![r].pc = "commit_persist"]
    /\ UNCHANGED <<SESSION_LOCK, disk, started, used>>
    /\ config_unchanged

-----------------------------------------------------------------------------
(* chat_stream() and its event_generator(): the streaming relay call *)

Chunk(kind, text) == [kind |-> kind, text |-> text]
UpstreamErrorChunk == Chunk("error", <<"[ERROR] Upstream error">>)
DnsErrorChunk == Chunk("error", <<"[ERROR] Cannot resolve OpenRouter host.">>)
NetworkErrorChunk == Chunk("error", <<"[ERROR] Network error">>)

\* variant: the retry test is off by one, allowing a fourth attempt
RetryAllowedOffByOne(attempt) == attempt <= MAX_ATTEMPTS

\* if attempt < 3: a failed attempt is retried unless it was the last one
RetryAllowed(attempt) == attempt < MAX_ATTEMPTS

\* variant: the wait does not double
BackoffMsConstant(attempt) == 600

\* time.sleep(0.6 * (2 ** (attempt - 1))), in milliseconds
BackoffMs(attempt) == 600 * 2 ^ (attempt - 1)

\* lines 385-397: the handler of requests.RequestException
ExceptBranch(q, kind, diag) ==
    IF RetryAllowed(q.attempt)
    THEN [q EXCEPT !.outcomes = Append(@, kind),
                   !.waits = Append(@, BackoffMs(q.attempt)),
                   !.attempt = @ + 1,
                   !.pc = "connect"]
    ELSE [q EXCEPT !.outcomes = Append(@, kind),
                   !.emitted = Append(@, diag),
                   !.pc = "finally"]

\* variant: the accumulated reply is committed without .strip()
FullReplyNoStrip(reply_accum) == Join(reply_accum)

\* full_reply = "".join(reply_accum).strip()
FullReply(reply_accum) == Strip(Join(reply_accum))

\* variant: the emptiness test is inverted
ShouldCommitInverted(full_reply) == full_reply = <<>>

\* variant: the emptiness test is missing
ShouldCommitAlways(full_reply) == TRUE

\* if full_reply:
ShouldCommit(full_reply) == full_reply # <<>>

\* lines 319-323: request entry; the clear flag of the request is not read
chat_stream(r) ==
    /\ r \in workers
    /\ reqs[r].pc \in {"idle", "done"}
    /\ started < limits.requests
    /\ \E sid \in limits.inputs.sessions, msg \in limits.inputs.messages,
          clear \in limits.inputs.clears, key \in limits.inputs.keys :
         LET q == NewRequest("stream", sid, msg, clear, key)
         IN  reqs' = [reqs EXCEPT ![r] =
                 IF MissingKey(q.effective_api_key)
                 THEN [q EXCEPT !.pc = "done", !.status = 400]
                 ELSE [q EXCEPT !.pc = "read"]]
    /\ started' = started + 1
    /\ UNCHANGED used
    /\ store_unchanged
    /\ config_unchanged

\* lines 331-332 and 412: history snapshot, then the response is handed to the
\* transport layer and the generator starts with attempt 1
stream_read_history(r) ==
    /\ reqs[r].pc = "read"
    /\ reqs[r].path = "stream"
    /\ CanAcquire(SESSION_LOCK)
    /\ SESSION_LOCK' = LockAfterRead(r)
    /\ reqs' = [reqs EXCEPT ![r].history = SessionGet(SESSIONS, reqs[r].session_id),
                            ![r].status = 200,
                            ![r].attempt = 1,
                            ![r].pc = "connect"]
    /\ UNCHANGED <<SESSIONS, disk, log, started, used>>
    /\ config_unchanged

\* line 360 raising requests.RequestException: the connection is not established
stream_connect_fails(r) ==
    /\ reqs[r].pc = "connect"
    /\ used.failures < limits.failures
    /\ used.chunks + used.failures < limits.events
    /\ used' = [used EXCEPT !.failures = @ + 1]
    /\ \E diag \in {DnsErrorChunk, NetworkErrorChunk} :
         reqs' = [reqs EXCEPT ![r] =
                    ExceptBranch([reqs[r] EXCEPT !.upstream_calls = @ + 1], "est_fail", diag)]
    /\ UNCHANGED started
    /\ store_unchanged
    /\ config_unchanged

\* lines 361-363: upstream answers with a status other than 200
stream_connect_status(r) ==
    /\ reqs[r].pc = "connect"
    /\ reqs' = [reqs EXCEPT ![r].upstream_calls = @ + 1,
                            ![r].outcomes = Append(@, "status"),
                            ![r].emitted = Append(@, UpstreamErrorChunk),
                            ![r].pc = "finally"]
    /\ UNCHANGED <<started, used>>
    /\ store_unchanged
    /\ config_unchanged

\* line 360 answering 200: the lines of the body are read next
stream_connect_ok(r) ==
    /\ reqs[r].pc = "connect"
    /\ reqs' = [reqs EXCEPT ![r].upstream_calls = @ + 1,
                            ![r].pc = "iter"]
    /\ UNCHANGED <<started, used>>
    /\ store_unchanged
    /\ config_unchanged

\* lines 365-366, 368, 376: an empty line, a line without the "data: " prefix,
\* or a JSON frame whose delta has no content: nothing is emitted
stream_line_ignored(r) ==
    /\ reqs[r].pc = "iter"
    /\ \E line \in {"empty", "no_data_prefix", "no_content"} : TRUE
    /\ UNCHANGED vars

\* lines 373-378: a JSON frame with a content delta
stream_line_content(r) ==
    /\ reqs[r].pc = "iter"
    /\ used.chunks < limits.chunks
    /\ used.chunks + used.failures < limits.events
    /\ used' = [used EXCEPT !.chunks = @ + 1]
    /\ \E chunk \in ContentChunks :
         reqs' = [reqs EXCEPT ![r].reply_accum = Append(@, chunk),
                              ![r].emitted = Append(@, Chunk("content", chunk)),
                              ![r].pc = "yielded"]
    /\ UNCHANGED started
    /\ store_unchanged
    /\ config_unchanged

\* lines 379-381: a data frame that is not the expected JSON is forwarded as is
stream_line_malformed(r) ==
    /\ reqs[r].pc = "iter"
    /\ used.chunks < limits.chunks
    /\ used.chunks + used.failures < limits.events
    /\ used' = [used EXCEPT !.chunks = @ + 1]
    /\ \E data_str \in RawFrames :
         reqs' = [reqs EXCEPT ![r].emitted = Append(@, Chunk("raw", data_str)),
                              ![r].pc = "yielded"]
    /\ UNCHANGED started
    /\ store_unchanged
    /\ config_unchanged

\* the caller asks for the next chunk: the generator resumes after its yield
stream_resume(r) ==
    /\ reqs[r].pc = "yielded"
    /\ reqs' = [reqs EXCEPT ![r].pc = "iter"]
    /\ UNCHANGED <<started, used>>
    /\ store_unchanged
    /\ config_unchanged

\* the caller goes away: the suspended generator is closed, GeneratorExit is
\* raised at its yield, no except clause catches it and the finally block runs
stream_abandoned(r) ==
    /\ reqs[r].pc = "yielded"
    /\ reqs' = [reqs EXCEPT ![r].abandoned = TRUE,
                            ![r].outcomes = Append(@, "closed"),
                            ![r].pc = "finally"]
    /\ UNCHANGED <<started, used>>
    /\ store_unchanged
    /\ config_unchanged

\* variant: the termination token does not end the reading of the body
AfterStreamEndKeepsReading(q, how) ==
    [q EXCEPT !.outcomes = Append(@, how),
              !.pc = IF how = "done_token" THEN "iter" ELSE "finally"]

\* lines 370-371 and 383-384: both the termination token and the end of the
\* body leave the line loop and the retry loop
AfterStreamEnd(q, how) ==
    [q EXCEPT !.outcomes = Append(@, how), !.pc = "finally"]

\* lines 370-371, 383-384: the termination token, or the end of the body
stream_ends(r) ==
    /\ reqs[r].pc = "iter"
    /\ \E how \in {"done_token", "eof"} :
         reqs' = [reqs EXCEPT ![r] = AfterStreamEnd(reqs[r], how)]
    /\ UNCHANGED <<started, used>>
    /\ store_unchanged
    /\ config_unchanged

\* line 364 raising requests.RequestException while the body is read
stream_read_fails(r) ==
    /\ reqs[r].pc = "iter"
    /\ used.failures < limits.failures
    /\ used.chunks + used.failures < limits.events
    /\ used' = [used EXCEPT !.failures = @ + 1]
    /\ reqs' = [reqs EXCEPT ![r] = ExceptBranch(reqs[r], "mid_fail", NetworkErrorChunk)]
    /\ UNCHANGED started
    /\ store_unchanged
    /\ config_unchanged

\* lines 398-404: the finally block of event_generator up to the appended
\* user message; the rest of the commit block is commit_append
stream_finally(r) ==
    /\ reqs[r].pc = "finally"
    /\ LET full_reply == FullReply(reqs[r].reply_accum)
       IN  IF ShouldCommit(full_reply)
           THEN /\ CanAcquire(SESSION_LOCK)
                /\ SESSION_LOCK' = r
                /\ SESSIONS' = SessionsAfterUser(SESSIONS, reqs[r].session_id,
                                                 reqs[r].message)
                /\ reqs' = [reqs EXCEPT ![r].full_reply = full_reply,
                                        ![r].hist = HistAfterUser(SESSIONS,
                                                        reqs[r].session_id,
                                                        reqs[r].message),
                                        ![r].pc = "commit_append"]
           ELSE /\ reqs' = [reqs EXCEPT ![r].pc = "done"]
                /\ UNCHANGED <<SESSIONS, SESSION_LOCK>>
    /\ UNCHANGED <<disk, started, used, log>>
    /\ config_unchanged

-----------------------------------------------------------------------------
(* _build_messages(): the prompt assembler *)

SystemPrompt == <<"You are a helpful assistant.">>

\* a text of n characters
Text(n) == [i \in 1..n |-> "x"]

\* content lengths around the budgets 1000 and 1200
PromptContents == {Text(1), Text(600), Text(1300)}

\* configured values of MAX_PROMPT_CHARS: below and above the floor
PromptCharsValues == {500, 1200}

\* histories of alternating user and assistant messages, complete turns or not
PromptHistories ==
    UNION {[1..n -> PromptContents] : n \in 0..PromptMaxLen}

HistoryOf(contents) ==
    [i \in 1..Len(contents) |->
        Message(IF i % 2 = 1 THEN "user" ELSE "assistant", contents[i])]

\* max_messages = MAX_TURNS * 2
\* trimmed_hist = history[-max_messages:] if max_messages > 0 else history
TurnCapped(history) ==
    LET max_messages == MAX_TURNS * 2
    IN  IF max_messages > 0 THEN PySliceLast(history, max_messages) ELSE history

\* variant: the budget has no floor
BudgetNoFloor == MAX_PROMPT_CHARS

\* budget = max(1000, MAX_PROMPT_CHARS)
Budget == IF MIN_BUDGET > MAX_PROMPT_CHARS THEN MIN_BUDGET ELSE MAX_PROMPT_CHARS

\* variant: the newest message is not exempt from the budget
OverBudgetAlsoFirst(total, content, accum) == total + Len(content) > Budget

\* if total + len(content) > budget and len(accum) > 0: break
OverBudget(total, content, accum) ==
    total + Len(content) > Budget /\ Len(accum) > 0

\* the loop over reversed(trimmed_hist): rest is the part of trimmed_hist not
\* yet visited, its last message is visited next; accum is newest first
RECURSIVE WalkBack(_, _, _)
WalkBack(rest, accum, total) ==
    IF rest = <<>> THEN accum
    ELSE LET msg == rest[Len(rest)]
         IN  IF OverBudget(total, msg.content, accum) THEN accum
             ELSE WalkBack(SubSeq(rest, 1, Len(rest) - 1),
                           Append(accum, Message(msg.role, msg.content)),
                           total + Len(msg.content))

\* accum.reverse()
Reverse(seq) == [i \in 1..Len(seq) |-> seq[Len(seq) - i + 1]]

\* the list returned by _build_messages
BuildMessages(system_prompt, history, user_message) ==
    <<Message("system", system_prompt)>>
        \o Reverse(WalkBack(TurnCapped(history), <<>>, 0))
        \o <<Message("user", user_message)>>

\* a process whose only observed operation is one call of _build_messages
PromptInit ==
    /\ limits = [requests |-> 0, events |-> 0, chunks |-> 0, failures |-> 0,
                 inputs |-> AllInputs]
    /\ MAX_TURNS \in 0..MaxTurnsBound
    /\ PERSIST_SESSIONS = FALSE
    /\ OPENROUTER_API_KEY = <<"k">>
    /\ MAX_PROMPT_CHARS \in PromptCharsValues
    /\ disk = <<>>
    /\ SESSIONS = <<>>
    /\ SESSION_LOCK = 0
    /\ reqs = [r \in Reqs |-> IdleReq]
    /\ workers = {}
    /\ used = [chunks |-> 0, failures |-> 0]
    /\ started = 0
    /\ log = [s \in SessionIds |-> <<>>]
    /\ \E contents \in PromptHistories, msg \in UserMessages :
          prompt = [IdlePrompt EXCEPT !.history = HistoryOf(contents),
                                      !.user_message = msg]

build_messages ==
    /\ ~prompt.built
    /\ prompt' = [prompt EXCEPT
                    !.messages = BuildMessages(SystemPrompt, prompt.history,
                                               prompt.user_message),
                    !.built = TRUE]
    /\ UNCHANGED <<MAX_TURNS, PERSIST_SESSIONS, OPENROUTER_API_KEY,
                   MAX_PROMPT_CHARS, SESSIONS, SESSION_LOCK, disk, reqs,
                   workers, limits, used, started, log>>

PromptNext == build_messages

PromptSpec == PromptInit /\ [][PromptNext]_vars

-----------------------------------------------------------------------------
(* The system: every request slot is an independently scheduled worker *)

Step(r) ==
    \/ chat(r)
    \/ chat_clear_only(r)
    \/ chat_clear(r)
    \/ chat_read_history(r)
    \/ chat_post_fails(r)
    \/ chat_post_replies(r)
    \/ chat_commit(r)
    \/ commit_append(r)
    \/ chat_stream(r)
    \/ stream_read_history(r)
    \/ stream_connect_fails(r)
    \/ stream_connect_status(r)
    \/ stream_connect_ok(r)
    \/ stream_line_ignored(r)
    \/ stream_line_content(r)
    \/ stream_line_malformed(r)
    \/ stream_resume(r)
    \/ stream_abandoned(r)
    \/ stream_ends(r)
    \/ stream_read_fails(r)
    \/ stream_finally(r)
    \/ persist_sessions_to_disk(r)

Next == \E r \in Reqs : Step(r)

Spec == Init /\ [][Next]_vars

StreamSpec == StreamInit /\ [][Next]_vars

ConcSpec == ConcInit /\ [][Next]_vars

RaceSpec == RaceInit /\ [][Next]_vars

\* threads are scheduled fairly: a worker that can take a step eventually does
FairSpec == Spec /\ \A r \in Reqs : WF_vars(Step(r))

-----------------------------------------------------------------------------
(* Vocabulary of the properties *)

Last(seq) == seq[Len(seq)]

\* the content chunks (delta.content increments) emitted to the caller so far
ContentEmitted(q) == SelectSeq(q.emitted, LAMBDA c : c.kind = "content")

\* the texts of a sequence of chunks, in emission order
Texts(chunks) == [i \in 1..Len(chunks) |-> chunks[i].text]

\* the request passed the credential check
Accepted(q) == q.pc # "idle" /\ q.status # 400

\* the upstream stream was read to its termination token or to its end
Drained(q) == q.outcomes # <<>> /\ Last(q.outcomes) \in {"done_token", "eof"}

\* the last two entries of the session's stored history
LastPair(sid) ==
    LET h == SessionGet(SESSIONS, sid)
    IN  IF Len(h) < 2 THEN <<>> ELSE SubSeq(h, Len(h) - 1, Len(h))

-----------------------------------------------------------------------------
\* C1: whenever no commit or clear is in progress, every session's history
\* has even length and at most 2 x MAX_TURNS entries, for every configured
\* MAX_TURNS >= 0.
C1_TurnParityAndCap ==
    SESSION_LOCK = 0
    => \A s \in DOMAIN SESSIONS :
          /\ Len(SESSIONS[s]) % 2 = 0
          /\ Len(SESSIONS[s]) <= 2 * MAX_TURNS

\* C2: a request that takes the store lock for a commit or a clear eventually
\* releases it, also with persistence enabled.
C2_LockEventuallyReleased ==
    \A r \in Reqs : (SESSION_LOCK = r) ~> (SESSION_LOCK # r)

\* C3: a streaming request whose last attempt ended in a transport failure
\* after content chunks were emitted commits nothing and leaves the session's
\* history as it was.
C3_NoCommitAfterPartialFailure ==
    \A r \in Reqs :
        LET q == reqs[r]
        IN  (/\ q.path = "stream"
             /\ q.pc \in {"finally", "commit_persist", "done"}
             /\ q.outcomes # <<>>
             /\ Last(q.outcomes) = "mid_fail"
             /\ ContentEmitted(q) # <<>>)
            => /\ q.commits = <<>>
               /\ SessionGet(SESSIONS, q.session_id) = q.history

\* C4: once a chunk has been emitted to the caller for a request, no step
\* makes a new upstream connection attempt for that request.
C4_NoRetryAfterChunk ==
    [][\A r \in Reqs :
          (reqs[r].path = "stream" /\ reqs[r].emitted # <<>>)
          => reqs'[r].upstream_calls <= reqs[r].upstream_calls]_vars

\* C5: when the caller abandons a streaming response, either the upstream
\* stream is drained before the commit or nothing is committed.
C5_NoPartialCommitOnAbandon ==
    \A r \in Reqs :
        reqs[r].abandoned => (Drained(reqs[r]) \/ reqs[r].commits = <<>>)

\* C6: on both paths an accepted request with clear = true and an empty or
\* whitespace-only message makes no upstream call, and returns the fixed
\* acknowledgement leaving no entry for its session id.
C6_ClearShortCircuit ==
    \A r \in Reqs :
        LET q == reqs[r]
        IN  (Accepted(q) /\ q.clear /\ Strip(q.message) = <<>>)
            => /\ q.upstream_calls = 0
               /\ q.pc = "done" => /\ q.reply = MemoryCleared
                                   /\ q.session_id \notin DOMAIN SESSIONS

\* C7 as stated: the assistant content committed by a streaming request is
\* the concatenation, in emission order, of all chunks emitted to the caller.
C7_CommittedIsAllEmitted ==
    \A r \in Reqs :
        LET q == reqs[r]
        IN  (q.path = "stream" /\ q.commits # <<>>)
            => q.commits[1] = Join(Texts(q.emitted))

\* C7 as amended: the assistant content committed by a streaming request is
\* the whitespace-trimmed concatenation, in emission order, of the content
\* chunks emitted to the caller; frames forwarded verbatim and diagnostic
\* chunks are not part of it.  Right after the commit it is the last entry of
\* the stored history.
C7_CommittedIsTrimmedContent ==
    \A r \in Reqs :
        LET q == reqs[r]
            content == Strip(Join(Texts(ContentEmitted(q))))
        IN  (q.path = "stream" /\ q.commits # <<>>)
            => /\ q.commits[1] = content
               /\ q.pc = "commit_persist"
                    => Last(SESSIONS[q.session_id]) = Message("assistant", content)

\* C7 witness: a commit after two content chunks and trimmed whitespace
C7_Witness ==
    \E r \in Reqs :
        LET q == reqs[r]
        IN  /\ q.path = "stream"
            /\ q.pc = "commit_persist"
            /\ Len(q.reply_accum) = 2
            /\ q.commits # <<>>
            /\ q.commits[1] # Join(Texts(q.emitted))

\* the turn ended in a reply: the blocking call got its reply, the stream was
\* read to its end
Succeeded(q) ==
    IF q.path = "blocking"
    THEN q.status = 200 /\ q.upstream_calls = 1
    ELSE q.path = "stream" /\ Drained(q)

\* the reply text the upstream produced for the turn
ReplyText(q) == IF q.path = "blocking" THEN q.reply ELSE Join(q.reply_accum)

\* the session's history ends with the request's turn
TurnAppended(q) ==
    q.commits # <<>>
    /\ LastPair(q.session_id)
         = <<Message("user", q.message), Message("assistant", q.commits[1])>>

\* C8 as stated: a request commits at most once, and a turn that completed
\* with a non-empty reply has committed exactly once.
C8_ExactlyOneCommit ==
    \A r \in Reqs :
        LET q == reqs[r]
        IN  /\ Len(q.commits) <= 1
            /\ (q.pc = "done" /\ Succeeded(q) /\ ReplyText(q) # <<>>)
               => Len(q.commits) = 1

\* C8 as amended: a request commits at most once; a blocking turn that
\* completed with a non-empty reply, and a streaming turn that completed with
\* a reply that is non-empty after trimming whitespace (retried or not), has
\* committed exactly once, the session's history ending with its pair; a
\* completed streaming turn whose reply is only whitespace has committed
\* nothing.
C8_ExactlyOneCommitOfTrimmedReply ==
    \A r \in Reqs :
        LET q == reqs[r]
            text == IF q.path = "stream" THEN Strip(ReplyText(q)) ELSE ReplyText(q)
        IN  /\ Len(q.commits) <= 1
            /\ q.pc = "commit_persist" => TurnAppended(q)
            /\ (q.pc = "done" /\ Succeeded(q) /\ text # <<>>)
               => Len(q.commits) = 1 /\ TurnAppended(q)
            /\ (q.pc = "done" /\ Succeeded(q) /\ text = <<>>)
               => q.commits = <<>>

\* C8 witness: a streaming turn that needed a retry and committed its pair
C8_Witness ==
    \E r \in Reqs :
        LET q == reqs[r]
        IN  /\ q.path = "stream"
            /\ q.pc = "done"
            /\ q.attempt >= 2
            /\ Succeeded(q)
            /\ Len(q.commits) = 1

\* C9: a streaming request that ended without having emitted a content chunk
\* committed nothing: the session's history is the one the request found,
\* and a session that had no entry still has none.
C9_ZeroChunksStoreUnchanged ==
    \A r \in Reqs :
        LET q == reqs[r]
        IN  (/\ q.path = "stream"
             /\ Accepted(q)
             /\ q.pc = "done"
             /\ ContentEmitted(q) = <<>>)
            => /\ q.commits = <<>>
               /\ SessionGet(SESSIONS, q.session_id) = q.history
               /\ q.history = <<>> => q.session_id \notin DOMAIN SESSIONS

\* C9 witness: an upstream non-success status on a session that has history
C9_Witness ==
    \E r \in Reqs :
        LET q == reqs[r]
        IN  /\ q.path = "stream"
            /\ q.pc = "done"
            /\ q.emitted = <<UpstreamErrorChunk>>
            /\ q.history # <<>>
            /\ SESSIONS[q.session_id] = q.history

\* the first three attempts of the request failed to establish the connection
ThreeEstablishmentFailures(q) ==
    /\ Len(q.outcomes) >= MAX_ATTEMPTS
    /\ \A i \in 1..MAX_ATTEMPTS : q.outcomes[i] = "est_fail"

\* C10: after three failed establishment attempts the generator is in its
\* final stage, has emitted exactly one chunk, the diagnostic, has made three
\* upstream calls and no more, and has committed nothing.
C10_RetryExhaustion ==
    \A r \in Reqs :
        LET q == reqs[r]
        IN  (q.path = "stream" /\ ThreeEstablishmentFailures(q))
            => /\ q.pc \in {"finally", "done"}
               /\ Len(q.outcomes) = MAX_ATTEMPTS
               /\ q.upstream_calls = MAX_ATTEMPTS
               /\ Len(q.emitted) = 1
               /\ q.emitted[1] \in {DnsErrorChunk, NetworkErrorChunk}
               /\ q.commits = <<>>
               /\ SessionGet(SESSIONS, q.session_id) = q.history

\* C10 witness: the request has ended after three establishment failures
C10_Witness ==
    \E r \in Reqs :
        /\ reqs[r].pc = "done"
        /\ ThreeEstablishmentFailures(reqs[r])

\* the attempts of the request that ended in a transport failure
FailedAttempts(q) ==
    SelectSeq(q.outcomes, LAMBDA o : o \in {"est_fail", "mid_fail"})

\* C11: a streaming request makes at most 3 connection attempts; only a
\* failed attempt is followed by another one, so an attempt that ended
\* normally or with a non-success status is the last; the waits made so far
\* are 600 ms after a failed attempt 1 and 1200 ms after a failed attempt 2,
\* and none after a failed attempt 3.
C11_AttemptsAndBackoff ==
    \A r \in Reqs :
        LET q == reqs[r]
            failed == Len(FailedAttempts(q))
        IN  q.path = "stream"
            => /\ q.upstream_calls <= 3
               /\ \A i \in 1..(Len(q.outcomes) - 1) :
                     q.outcomes[i] \in {"est_fail", "mid_fail"}
               /\ (q.outcomes # <<>> /\ Last(q.outcomes) \in {"status", "done_token", "eof"})
                  => /\ q.pc \notin {"connect", "iter", "yielded"}
                     /\ q.upstream_calls = Len(q.outcomes)
               /\ q.waits = [i \in 1..(IF failed < 2 THEN failed ELSE 2) |->
                                IF i = 1 THEN 600 ELSE 1200]

\* C11 witness: a request that ended after three failed attempts and two waits
C11_Witness ==
    \E r \in Reqs :
        /\ reqs[r].pc = "done"
        /\ Len(FailedAttempts(reqs[r])) = 3
        /\ reqs[r].waits = <<600, 1200>>

\* the last k of a sequence of turns
LastTurns(turns, k) == SubSeq(turns, Len(turns) - k + 1, Len(turns))

\* C12: whenever no commit or clear is in progress, the stored history of a
\* session with n turns committed since its last clear is exactly the last
\* min(n, MAX_TURNS) of them in commit order, each the user message followed
\* by its assistant reply.
C12_LastTurnsKept ==
    SESSION_LOCK = 0
    => \A s \in SessionIds :
          LET n == Len(log[s])
              kept == IF n < MAX_TURNS THEN n ELSE MAX_TURNS
          IN  SessionGet(SESSIONS, s) = Join(LastTurns(log[s], kept))

\* a history made of whole turns: user message, assistant message, ...
WellPaired(h) ==
    /\ Len(h) % 2 = 0
    /\ \A i \in 1..Len(h) : h[i].role = IF i % 2 = 1 THEN "user" ELSE "assistant"

\* the step in which request r takes its history snapshot
ReadsHistory(r) == reqs[r].pc = "read" /\ reqs'[r].pc \in {"post", "connect"}

\* the request is inside its commit block, the user message appended and the
\* assistant message not yet
MidCommit(q) == q.pc = "commit_append"

\* C13: every history snapshot consists of whole turns, and the step that
\* takes it runs when no other request is half-way through a commit on the
\* same session, so that it equals the stored history before or after that
\* commit.
C13_SnapshotNeverPartial ==
    /\ [](\A r \in Reqs : WellPaired(reqs[r].history))
    /\ [][\A r \in Reqs :
            ReadsHistory(r)
            => /\ \A o \in Reqs \ {r} :
                     ~(MidCommit(reqs[o]) /\ reqs[o].session_id = reqs[r].session_id)
               /\ WellPaired(SessionGet(SESSIONS, reqs[r].session_id))
               /\ reqs'[r].history = SessionGet(SESSIONS, reqs[r].session_id)]_vars

\* C13 witness: a request waits to take its snapshot while another request is
\* half-way through a commit on the same session and the stored list already
\* shows the appended user message
C13_Witness ==
    \E r, o \in Reqs :
        /\ r # o
        /\ reqs[r].pc = "read"
        /\ MidCommit(reqs[o])
        /\ reqs[o].session_id = reqs[r].session_id
        /\ ~WellPaired(SessionGet(SESSIONS, reqs[r].session_id))

\* the upstream call of the request is outstanding: the blocking post, the
\* streaming post, the open response whose lines are read
InNetworkCall(q) == q.pc \in {"post", "connect", "iter", "yielded"}

\* C14: no request holds the store lock while its upstream call is
\* outstanding.
C14_NoLockDuringNetworkCall ==
    \A r \in Reqs : InNetworkCall(reqs[r]) => SESSION_LOCK # r

\* C14 witness: a request reads its upstream stream, after its snapshot under
\* the lock, while another request holds the lock
C14_Witness ==
    \E r, o \in Reqs :
        /\ r # o
        /\ reqs[r].pc = "iter"
        /\ SESSION_LOCK = o

\* the stored history of a session, empty when it has no entry
Stored(s) == IF s \in DOMAIN SESSIONS THEN SESSIONS[s] ELSE <<>>

\* h is the end of the sequence of messages all
IsSuffix(h, all) ==
    /\ Len(h) <= Len(all)
    /\ h = SubSeq(all, Len(all) - Len(h) + 1, Len(all))

\* the request has appended its turn to its session
HasCommitted(q) == q.commits # <<>> /\ q.pc \in {"commit_persist", "done"}

\* the pair a request that has committed appended
CommittedPair(q) ==
    <<Message("user", q.message), Message("assistant", q.commits[1])>>

\* C15: whenever no commit or clear is in progress, each session's stored
\* history consists of the turns committed to that session id, the newest
\* ones, in commit order; and when two requests on distinct session ids have
\* both committed, in whatever order their steps were taken, each session's
\* history ends with the pair of its own request.
C15_SessionsIsolated ==
    /\ SESSION_LOCK = 0
       => \A s \in SessionIds :
             /\ IsSuffix(Stored(s), Join(log[s]))
             /\ log[s] # <<>> => IsSuffix(Last(log[s]), Stored(s))
    /\ \A r, o \in Reqs :
          (/\ r # o
           /\ reqs[r].session_id # reqs[o].session_id
           /\ HasCommitted(reqs[r])
           /\ HasCommitted(reqs[o]))
          => /\ IsSuffix(CommittedPair(reqs[r]), Stored(reqs[r].session_id))
             /\ IsSuffix(CommittedPair(reqs[o]), Stored(reqs[o].session_id))

\* C15 witness: two requests of different workers have committed different
\* turns to distinct session ids and have both returned
C15_Witness ==
    \E r, o \in Reqs :
        /\ r # o
        /\ reqs[r].session_id # reqs[o].session_id
        /\ reqs[r].message # reqs[o].message
        /\ HasCommitted(reqs[r])
        /\ HasCommitted(reqs[o])
        /\ reqs[r].pc = "done"
        /\ reqs[o].pc = "done"

\* the total content length of the last i messages of h
RECURSIVE SumLast(_, _)
SumLast(h, i) ==
    IF i = 0 THEN 0 ELSE Len(h[Len(h) - i + 1].content) + SumLast(h, i - 1)

\* the effective budget max(1000, MAX_PROMPT_CHARS)
EffectiveBudget == IF MAX_PROMPT_CHARS < 1000 THEN 1000 ELSE MAX_PROMPT_CHARS

\* the last j messages of h can all be included: from the second newest on,
\* each keeps the running content length within the effective budget
Fits(h, j) == \A i \in 2..j : SumLast(h, i) <= EffectiveBudget

\* the number of messages included: the walk stops at the first message that
\* does not fit
Included(h) ==
    CHOOSE j \in 0..Len(h) : Fits(h, j) /\ (j = Len(h) \/ ~Fits(h, j + 1))

\* C16: the assembled prompt is one system message, then the newest messages
\* of the turn-capped history up to the first one whose inclusion would push
\* the running content length above max(1000, MAX_PROMPT_CHARS), the newest
\* one always included, in chronological order, then the new user message;
\* an empty history gives [system, user].
C16_PromptWithinBudget ==
    prompt.built
    => LET capped == TurnCapped(prompt.history)
           k == Included(capped)
       IN  /\ prompt.messages
                = <<Message("system", SystemPrompt)>>
                    \o SubSeq(capped, Len(capped) - k + 1, Len(capped))
                    \o <<Message("user", prompt.user_message)>>
           /\ capped # <<>> => k >= 1
           /\ prompt.history = <<>>
              => prompt.messages = <<Message("system", SystemPrompt),
                                     Message("user", prompt.user_message)>>

\* C16 witness: with MAX_PROMPT_CHARS below the floor, the newest message
\* alone exceeds the budget and is the only historical message included
C16_Witness ==
    /\ prompt.built
    /\ MAX_PROMPT_CHARS < 1000
    /\ Len(TurnCapped(prompt.history)) >= 2
    /\ Len(Last(prompt.history).content) > 1000
    /\ Len(prompt.messages) = 3
    /\ prompt.messages[2] = Last(prompt.history)

\* the most recent k entries of a history, all of it when it has fewer
MostRecent(history, k) ==
    SubSeq(history, Len(history) - (IF k < Len(history) THEN k ELSE Len(history)) + 1,
           Len(history))

\* C17: for every history and every MAX_TURNS >= 0, the assembled prompt
\* holds at most 2 x MAX_TURNS historical messages, all among the most recent
\* 2 x MAX_TURNS entries of the history, and is the prompt assembled from
\* those entries alone.
C17_TurnCapIdempotent ==
    prompt.built
    => LET historical == SubSeq(prompt.messages, 2, Len(prompt.messages) - 1)
           recent == MostRecent(prompt.history, 2 * MAX_TURNS)
       IN  /\ Len(historical) <= 2 * MAX_TURNS
           /\ IsSuffix(historical, recent)
           /\ prompt.messages
                = BuildMessages(SystemPrompt, recent, prompt.user_message)

\* the request has no effective API key: none in the request, none in the
\* process configuration
NoEffectiveKey(q) == q.pc # "idle" /\ q.effective_api_key = <<>>

BlockingCallFailed(q) ==
    /\ q.path = "blocking"
    /\ q.pc = "done"
    /\ q.upstream_calls >= 1
    /\ (q.upstream_status # 200 \/ q.reply = <<>>)

\* C19: a blocking request makes at most one upstream call, exactly one once
\* it has an answer; when the call returns a status other than 200, returns
\* no reply content or fails at transport level, the request ends with an
\* error status, the upstream's own for a non-200 answer, and no turn is
\* appended: the session's history is the one the request read.
C19_BlockingFailureNoTurn ==
    \A r \in Reqs :
        LET q == reqs[r]
        IN  /\ q.path = "blocking" => q.upstream_calls <= 1
            /\ (q.path = "blocking"
                  /\ q.pc \in {"commit", "commit_append", "commit_persist"})
               => q.upstream_calls = 1
            /\ BlockingCallFailed(q)
               => /\ q.upstream_calls = 1
                  /\ q.status >= 400
                  /\ q.upstream_status \notin {0, 200}
                     => q.status = q.upstream_status
                  /\ q.commits = <<>>
                  /\ Stored(q.session_id) = q.history

\* C19 witness: the upstream answered 429 to a blocking request on a session
\* that has history
C19_Witness ==
    \E r \in Reqs :
        /\ BlockingCallFailed(reqs[r])
        /\ reqs[r].upstream_status = 429
        /\ reqs[r].history # <<>>

\* the last attempt of the request read the termination token [DONE]
TokenRead(q) ==
    q.path = "stream" /\ q.outcomes # <<>> /\ Last(q.outcomes) = "done_token"

\* the generator has left the retry loop
LoopLeft(q) == q.pc \in {"finally", "commit_append", "commit_persist", "done"}

\* C20 as stated: once [DONE] has been read the generator makes no further
\* attempt and, when it has ended, has committed the turn with the content
\* accumulated before the token.
C20_CommittedAsAccumulated ==
    \A r \in Reqs :
        LET q == reqs[r]
        IN  TokenRead(q)
            => /\ LoopLeft(q)
               /\ q.upstream_calls = Len(q.outcomes)
               /\ q.pc = "done" => q.commits = <<Join(q.reply_accum)>>

\* C20 as amended: once [DONE] has been read, no further chunk is emitted, no
\* frame is added to the accumulated reply and no further attempt is made;
\* the turn is committed with the content accumulated before the token,
\* trimmed of leading and trailing whitespace, when that is non-empty, and
\* nothing is committed when it is empty.
C20_DoneTokenEndsStream ==
    /\ [](\A r \in Reqs :
            LET q == reqs[r]
                content == Strip(Join(q.reply_accum))
            IN  TokenRead(q)
                => /\ LoopLeft(q)
                   /\ q.upstream_calls = Len(q.outcomes)
                   /\ q.pc \in {"commit_persist", "done"}
                      => q.commits = IF content # <<>> THEN <<content>> ELSE <<>>
                   /\ (q.pc = "commit_persist" /\ content # <<>>)
                      => Last(Stored(q.session_id)) = Message("assistant", content))
    /\ [][\A r \in Reqs :
            (TokenRead(reqs[r]) /\ reqs[r].pc # "done")
            => /\ reqs'[r].emitted = reqs[r].emitted
               /\ reqs'[r].reply_accum = reqs[r].reply_accum
               /\ reqs'[r].outcomes = reqs[r].outcomes
               /\ reqs'[r].upstream_calls = reqs[r].upstream_calls]_vars

\* C20 witness: a stream that sent two content chunks and then [DONE] has
\* ended and committed
C20_Witness ==
    \E r \in Reqs :
        /\ TokenRead(reqs[r])
        /\ reqs[r].pc = "done"
        /\ Len(reqs[r].reply_accum) = 2
        /\ reqs[r].commits # <<>>

-----------------------------------------------------------------------------
(* Commits that overtake a snapshot *)

\* request r appends its turn to the store in this step
CommitsTurn(r) == reqs[r].pc = "commit_append" /\ reqs'[r].pc = "commit_persist"

\* the messages the retention cap keeps of a history: its last 2 * MAX_TURNS
Retained(all) ==
    LET n == IF Len(all) < 2 * MAX_TURNS THEN Len(all) ELSE 2 * MAX_TURNS
    IN  SubSeq(all, Len(all) - n + 1, Len(all))

\* C21: when a request commits its turn after another request committed to
\* the same session since its snapshot (and the session was not cleared in
\* between), the session's history is then the snapshot followed by the
\* turns committed since and by its own turn, each a user message followed
\* by its assistant reply, cut to the retention cap: the earlier commit is
\* not overwritten.
C21_BothTurnsKept ==
    [][\A r \in Reqs :
          (/\ CommitsTurn(r)
           /\ reqs[r].since # <<>>
           /\ ~reqs[r].cleared_since
           /\ MAX_TURNS >= 1)
          => SessionGet(SESSIONS', reqs[r].session_id)
             = Retained(reqs[r].history \o Join(reqs[r].since)
                        \o CommittedPair(reqs'[r]))]_vars

\* C21 witness: two requests on one session id both took their snapshot of
\* the empty history before either committed, then committed different
\* turns one after the other, and the session holds both turns in that order
C21_Witness ==
    \E r, o \in Reqs :
        /\ r # o
        /\ reqs[r].session_id = reqs[o].session_id
        /\ reqs[r].message # reqs[o].message
        /\ reqs[r].pc = "done" /\ HasCommitted(reqs[r])
        /\ reqs[o].pc = "done" /\ HasCommitted(reqs[o])
        /\ reqs[r].history = <<>> /\ reqs[o].history = <<>>
        /\ reqs[r].since = <<CommittedPair(reqs[o])>>
        /\ ~reqs[r].cleared_since
        /\ Stored(reqs[r].session_id)
           = CommittedPair(reqs[o]) \o CommittedPair(reqs[r])

\* C22: when a request commits its turn after its session was cleared since
\* its snapshot, the session's history is then made only of the turns
\* committed after that clear, its own turn last, cut to the retention cap:
\* nothing of the snapshot taken before the clear is stored again.
C22_ClearedNeverRestored ==
    [][\A r \in Reqs :
          (/\ CommitsTurn(r)
           /\ reqs[r].cleared_since
           /\ MAX_TURNS >= 1)
          => SessionGet(SESSIONS', reqs[r].session_id)
             = Retained(Join(reqs[r].since) \o CommittedPair(reqs'[r]))]_vars

\* C22 witness: a request took a snapshot holding an earlier turn, the
\* session was cleared while its upstream call was outstanding, it then
\* committed a different turn, and the session holds that turn alone
C22_Witness ==
    \E r \in Reqs :
        /\ reqs[r].pc = "done" /\ HasCommitted(reqs[r])
        /\ reqs[r].history # <<>>
        /\ reqs[r].history # CommittedPair(reqs[r])
        /\ reqs[r].cleared_since
        /\ reqs[r].since = <<>>
        /\ Stored(reqs[r].session_id) = CommittedPair(reqs[r])

====
